---- MODULE Spec2Model ----
(***************************************************************************)
(* A model of the virtual try-on application: the guided body-scan capture *)
(* component (BodyScanCapture / CameraCapture), the App controller with    *)
(* its generate / save handlers, and the profile load with its migration.  *)
(* The repository holds four near-duplicate variants of the application:   *)
(*   "idx"  src/index.tsx             3-angle scan, migration on load      *)
(*   "p0"   src/unnamed/part_000      3-angle scan + face image            *)
(*   "p1a"  src/unnamed/part_001:1    photo list (up to 3) + CameraCapture *)
(*   "p1b"  src/unnamed/part_001:532  face image + one full-body image     *)
(***************************************************************************)
EXTENDS Integers, Sequences, FiniteSets, TLC

VARIABLES
    variant,              \* which of the four variants runs
    \* ---- ProfilePage form state that the capture component writes
    isScanning,           \* ProfilePage.isScanning / isCameraOpen: the capture component is mounted
    bodyScans,            \* ProfilePage.bodyScans (form)
    photos,               \* ProfilePage.photos (form, photo-list variant)
    localError,           \* ProfilePage.localError
    \* ---- BodyScanCapture component state
    sess,                 \* number of the capture component instance (0: none yet)
    step,                 \* useState step
    images,               \* useState images
    preview,              \* useState preview (a data URL, NoPreview for null)
    countdown,            \* useState countdown (NoCountdown for null)
    timers,               \* the active setInterval timers, each with its closure variable count
    countdownIntervalRef, \* the ref holding the last interval id (0: null)
    pending,              \* getUserMedia promises not yet settled, per component instance
    requests,             \* number of getUserMedia calls made so far
    streams,              \* every MediaStream delivered so far: owner instance, times stopped
    streamRef,            \* streamRef.current of the mounted instance (index into streams, 0: null)
    videoSrc,             \* srcObject of the mounted <video> element (index into streams, 0: none)
    \* ---- observation of the capture component (history variables)
    completeCalls,        \* calls of onComplete made by the current instance
    emitted,              \* the argument of the last onComplete call
    confirmLog,           \* the <<step, preview>> pairs confirmed by the current instance
    stillsThisCountdown,  \* stills taken since the last countdown was started
    lastOp,               \* the handler that ran last
    \* ---- App state
    page,                 \* useState page
    booted,               \* the load effect has run
    profile,              \* useState profile (Null for null)
    storage,              \* the localStorage item of the profile
    clothingImage,        \* useState clothingImage
    selectedPose,         \* useState selectedPose
    resultImage,          \* useState resultImage (a data URL, NoResult for null)
    error,                \* useState error (NoMessage for null)
    isSavingOutfit,       \* useState isSavingOutfit
    newOutfitName,        \* useState newOutfitName
    isOutfitSaved,        \* useState isOutfitSaved
    savedFromResult,      \* outfits added to the profile from the result shown (history)
    inflight,             \* the generateContent request awaiting its reply (Null: none)
    tip,                  \* useState tip / currentTip, as its index in loadingTips
    \* ---- ProfilePage form state
    formName,             \* useState name
    formHeight,           \* useState height
    formWeight,           \* useState weight
    formBodyType,         \* useState bodyType
    formFace,             \* useState faceImage
    formFullBody,         \* useState fullBodyImage
    formSavedOutfits,     \* useState savedOutfits
    \* ---- observation of the App handlers (history variables)
    actions,              \* the number of user actions taken so far
    lastReply,            \* the reply the handler that ran last was given (NoReply: none)
    threw,                \* the handler that ran last let an exception escape
    writeFailed           \* the handler that ran last had its localStorage.setItem fail

captureVars == <<isScanning, bodyScans, photos, localError, sess, step, images,
                 preview, countdown, timers, countdownIntervalRef, pending, requests,
                 streams, streamRef, videoSrc, completeCalls, emitted, confirmLog,
                 stillsThisCountdown, lastOp>>

appVars == <<page, booted, profile, storage, clothingImage, selectedPose, resultImage, error,
             isSavingOutfit, newOutfitName, isOutfitSaved, savedFromResult, inflight, tip, formName,
             formHeight,
             formWeight, formBodyType, formFace, formFullBody, formSavedOutfits, actions,
             lastReply, threw, writeFailed>>

\* the App state but the page
appOther == <<booted, profile, storage, clothingImage, selectedPose, resultImage, error,
              isSavingOutfit, newOutfitName, isOutfitSaved, savedFromResult, inflight, tip, formName,
             formHeight,
              formWeight, formBodyType, formFace, formFullBody, formSavedOutfits, actions,
              lastReply, threw, writeFailed>>

vars == <<variant, captureVars, appVars>>

\* the ProfilePage component is mounted
pageMounted == page = "profile"

----------------------------------------------------------------------------
(* Bounds of the model *)

MaxSessions == 2       \* capture component instances opened
MaxRequests == 2       \* getUserMedia calls over a run
MaxOverrun == 1        \* ticks below zero of a timer nobody cleared
MaxNow == 3            \* readings of Date.now() that outfit ids are made of
MaxActions == 9        \* user actions over a run of the App

(* Program constants *)

CountdownStart == 3    \* let count = 3
NoCountdown == -1      \* countdown === null
MaxPhotos == 3         \* photos.length < 3

----------------------------------------------------------------------------
(* Values *)

Null == [null |-> TRUE]                       \* null for object-typed values
NoPreview == <<>>                             \* null for the preview data URL
Steps == <<"front", "side", "back">>
Frames == {"f1", "f2"}                        \* what the camera may show

JpegHeader == "data:image/jpeg;base64"
\* canvas.toDataURL('image/jpeg'), as the pieces that split(',') yields.  A canvas of
\* width 0 (a video element without data) encodes as "data:,".
ToDataURL(frame) == IF frame = "" THEN <<"data:", "">> ELSE <<JpegHeader, frame>>
\* preview.split(',')[1]
Base64Of(dataUrl) == dataUrl[2]
ImageFile(b64, mime) == [b64 |-> b64, mimeType |-> mime]

EmptyScan == [front |-> Null, side |-> Null, back |-> Null]

NothingReported == <<>>
CameraDenied == <<"Camera access was denied.">>
TooManyPhotos == <<"You can upload a maximum of 3 photos.">>
InvalidFileType == <<"Invalid file type. Please upload an image.">>
NoError == <<>>                          \* localError === null

----------------------------------------------------------------------------
(* The capture component: BodyScanCapture (idx, p0) and CameraCapture (p1a) *)

Min(a, b) == IF a < b THEN a ELSE b

\* videoRef.current is non-null: the <video> element is rendered.  In idx the element
\* is rendered only without a preview; in p0 and p1a it is always rendered.
VideoMounted == isScanning /\ (variant = "idx" => preview = NoPreview)

\* The frames drawImage can copy from the video element.  Without a stream the video
\* has width 0 and the canvas encodes as "data:,"; a stopped stream leaves either.
FrameChoices ==
    IF videoSrc = 0 THEN {""}
    ELSE IF streams[videoSrc].stops = 0 THEN Frames
    ELSE Frames \cup {""}

\* cleanup: if (streamRef.current) streamRef.current.getTracks().forEach(t => t.stop())
StopTracks(ss, ref) ==
    IF ref # 0 THEN [ss EXCEPT ![ref].stops = Min(@ + 1, 2)] ELSE ss

\* clearInterval(countdownIntervalRef.current), guarded by the ref being non-null
ClearNoInterval(ts, ref) == ts
ClearInterval(ts, ref) == IF ref # 0 THEN {t \in ts : t.id # ref} ELSE ts

\* window.setInterval returns an id no live timer has
FreshTimerId == CHOOSE n \in 1..(Cardinality(timers) + 2) :
                    n # countdownIntervalRef /\ \A t \in timers : t.id # n

\* if (countdown !== null) return;
CaptureAlwaysAccepted(cd) == FALSE
CaptureRejected(cd) == cd # NoCountdown

\* const newImages = { ...images, [step]: { b64: base64, mimeType: 'image/jpeg' } }
ConfirmImagesOnlyStep(imgs, st, pv) ==
    [EmptyScan EXCEPT ![st] = ImageFile(Base64Of(pv), "image/jpeg")]
ConfirmImages(imgs, st, pv) ==
    [imgs EXCEPT ![st] = ImageFile(Base64Of(pv), "image/jpeg")]

\* The component unmounts: React runs the effect cleanup and drops the state.
UnmountCapture ==
    /\ isScanning' = FALSE
    /\ streams' = StopTracks(streams, streamRef)
    /\ timers' = ClearInterval(timers, countdownIntervalRef)
    /\ step' = "front"
    /\ images' = EmptyScan
    /\ preview' = NoPreview
    /\ countdown' = NoCountdown
    /\ countdownIntervalRef' = 0
    /\ streamRef' = 0
    /\ videoSrc' = 0

componentState == <<step, images, preview, countdown, countdownIntervalRef, streamRef, videoSrc>>
history == <<completeCalls, emitted, confirmLog, stillsThisCountdown>>

\* ProfilePage: setIsScanning(true) / setIsCameraOpen(true) mounts the component, whose
\* effect calls startCamera.
OpenScan ==
    /\ pageMounted /\ ~isScanning
    /\ sess < MaxSessions /\ requests < MaxRequests
    /\ variant = "p1a" => Len(photos) < MaxPhotos
    /\ isScanning' = TRUE
    /\ sess' = sess + 1
    /\ pending' = [pending EXCEPT ![sess + 1] = 1]
    /\ requests' = requests + 1
    /\ step' = "front" /\ images' = EmptyScan /\ preview' = NoPreview
    /\ countdown' = NoCountdown /\ countdownIntervalRef' = 0
    /\ streamRef' = 0 /\ videoSrc' = 0
    /\ completeCalls' = 0 /\ emitted' = EmptyScan /\ confirmLog' = <<>>
    /\ stillsThisCountdown' = 0
    /\ lastOp' = "other"
    /\ UNCHANGED <<appVars, variant, bodyScans, photos, localError, timers, streams>>

\* startCamera, after the await: the promise of instance s resolves with a new stream.
PermissionGranted(s) ==
    /\ pending[s] > 0
    /\ pending' = [pending EXCEPT ![s] = @ - 1]
    /\ streams' = Append(streams, [sess |-> s, stops |-> 0])
    /\ IF isScanning /\ sess = s /\ VideoMounted
       THEN /\ videoSrc' = Len(streams) + 1
            /\ streamRef' = Len(streams) + 1
       ELSE UNCHANGED <<videoSrc, streamRef>>
    /\ lastOp' = "other"
    /\ UNCHANGED <<appVars, variant, isScanning, bodyScans, photos, localError, sess, step,
                   images, preview, countdown, timers, countdownIntervalRef, requests, history>>

\* startCamera, the catch: setError(...); onClose().  onClose is the ProfilePage's
\* () => setIsScanning(false), whichever instance the promise belonged to.  The step is
\* recorded as "denied" when the promise belongs to the instance that is mounted.
PermissionDenied(s) ==
    /\ pending[s] > 0
    /\ pending' = [pending EXCEPT ![s] = @ - 1]
    /\ localError' = IF pageMounted THEN CameraDenied ELSE localError
    /\ IF pageMounted /\ isScanning
       THEN UnmountCapture
       ELSE UNCHANGED <<isScanning, streams, timers, componentState>>
    /\ lastOp' = IF isScanning /\ sess = s THEN "denied" ELSE "other"
    /\ UNCHANGED <<appVars, variant, bodyScans, photos, sess, requests, history>>

\* The ProfilePage renders again while the component is mounted: onClose is a new
\* function, so the effect's dependencies changed; React runs the cleanup and then
\* the effect again (a second startCamera).
ParentRerender ==
    /\ pageMounted /\ isScanning
    /\ requests < MaxRequests
    /\ streams' = StopTracks(streams, streamRef)
    /\ timers' = ClearInterval(timers, countdownIntervalRef)
    /\ pending' = [pending EXCEPT ![sess] = @ + 1]
    /\ requests' = requests + 1
    /\ lastOp' = "other"
    /\ UNCHANGED <<appVars, variant, isScanning, bodyScans, photos, localError, sess,
                   componentState, history>>

\* handleCapture of BodyScanCapture; the capture button is rendered without a preview
HandleCapture ==
    /\ isScanning /\ variant \in {"idx", "p0"}
    /\ preview = NoPreview
    /\ lastOp' = "capture"
    /\ IF CaptureRejected(countdown)
       THEN UNCHANGED <<countdown, timers, countdownIntervalRef, stillsThisCountdown>>
       ELSE /\ countdown' = CountdownStart
            /\ timers' = timers \cup {[id |-> FreshTimerId, count |-> CountdownStart, sess |-> sess]}
            /\ countdownIntervalRef' = FreshTimerId
            /\ stillsThisCountdown' = 0
    /\ UNCHANGED <<appVars, variant, isScanning, bodyScans, photos, localError, sess, step,
                   images, preview, pending, requests, streams, streamRef, videoSrc,
                   completeCalls, emitted, confirmLog>>

\* The interval callback of handleCapture, for timer t
Tick(t) ==
    /\ t \in timers
    /\ t.count > -MaxOverrun
    /\ LET c == t.count - 1
           alive == isScanning /\ sess = t.sess
           ticked == (timers \ {t}) \cup {[t EXCEPT !.count = c]}
       IN /\ countdown' = IF alive THEN (IF c > 0 THEN c ELSE NoCountdown) ELSE countdown
          /\ IF c = 0
             THEN /\ timers' = ClearInterval(ticked, IF alive THEN countdownIntervalRef ELSE 0)
                  /\ IF alive /\ VideoMounted
                     THEN /\ \E f \in FrameChoices : preview' = ToDataURL(f)
                          /\ stillsThisCountdown' = Min(stillsThisCountdown + 1, 2)
                          /\ videoSrc' = IF variant = "idx" THEN 0 ELSE videoSrc
                     ELSE UNCHANGED <<preview, stillsThisCountdown, videoSrc>>
             ELSE /\ timers' = ticked
                  /\ UNCHANGED <<preview, stillsThisCountdown, videoSrc>>
    /\ lastOp' = "tick"
    /\ UNCHANGED <<appVars, variant, isScanning, bodyScans, photos, localError, sess, step,
                   images, countdownIntervalRef, pending, requests, streams, streamRef,
                   completeCalls, emitted, confirmLog>>

\* handleRetake; in idx the <video> element is rendered anew, without a srcObject
HandleRetake ==
    /\ isScanning /\ variant \in {"idx", "p0"}
    /\ preview # NoPreview
    /\ preview' = NoPreview
    /\ lastOp' = "retake"
    /\ UNCHANGED <<appVars, variant, isScanning, bodyScans, photos, localError, sess, step,
                   images, countdown, timers, countdownIntervalRef, pending, requests, streams,
                   streamRef, videoSrc, history>>

\* handleConfirm; at step back: onComplete(newImages) (ProfilePage.handleScanComplete)
\* and onClose()
HandleConfirm ==
    /\ isScanning /\ variant \in {"idx", "p0"}
    /\ preview # NoPreview
    /\ LET newImages == ConfirmImages(images, step, preview)
       IN /\ confirmLog' = Append(confirmLog, <<step, preview>>)
          /\ IF step = "back"
             THEN /\ completeCalls' = Min(completeCalls + 1, 2)
                  /\ emitted' = newImages
                  /\ bodyScans' = newImages
                  /\ UnmountCapture
             ELSE /\ images' = newImages
                  /\ preview' = NoPreview
                  /\ step' = IF step = "front" THEN "side" ELSE "back"
                  /\ UNCHANGED <<completeCalls, emitted, bodyScans, isScanning, streams, timers,
                                 countdown, countdownIntervalRef, streamRef, videoSrc>>
    /\ lastOp' = "confirm"
    /\ UNCHANGED <<appVars, variant, photos, localError, sess, pending, requests,
                   stillsThisCountdown>>

\* handleConfirm invoked once more from the render in which the last confirm ran, before
\* React renders again (a second click event dispatched in the same task): the closure
\* holds the same preview, images and step, so `if (!preview) return` lets it pass, the
\* setters are given the values they were given before, and at step back onComplete
\* and onClose are called again.
HandleConfirmAgain ==
    /\ lastOp = "confirm"
    /\ completeCalls' = IF confirmLog[Len(confirmLog)][1] = "back"
                        THEN Min(completeCalls + 1, 2) ELSE completeCalls
    /\ lastOp' = "confirmAgain"
    /\ UNCHANGED <<appVars, variant, isScanning, bodyScans, photos, localError, sess,
                   componentState, timers, pending, requests, streams, emitted, confirmLog,
                   stillsThisCountdown>>

\* CameraCapture.handleCapture (p1a): one frame, onCapture(file) (ProfilePage.handleCapture),
\* onClose()
HandleCaptureSimple ==
    /\ isScanning /\ variant = "p1a"
    /\ \E f \in FrameChoices :
         LET file == ImageFile(Base64Of(ToDataURL(f)), "image/jpeg")
         IN IF Len(photos) < MaxPhotos
            THEN photos' = Append(photos, file) /\ UNCHANGED localError
            ELSE localError' = TooManyPhotos /\ UNCHANGED photos
    /\ UnmountCapture
    /\ lastOp' = "other"
    /\ UNCHANGED <<appVars, variant, bodyScans, sess, pending, requests, history>>

\* A click on the overlay: onClose().  The step is recorded as "teardown" when a
\* countdown timer was running.
OverlayClose ==
    /\ pageMounted /\ isScanning
    /\ UnmountCapture
    /\ lastOp' = IF timers # {} THEN "teardown" ELSE "other"
    /\ UNCHANGED <<appVars, variant, bodyScans, photos, localError, sess, pending, requests,
                   history>>

\* The ProfilePage itself unmounts (Header navigation): the capture component, if
\* mounted, is torn down with it.
NavigateAway ==
    /\ pageMounted
    /\ page' = "home"
    /\ IF isScanning
       THEN UnmountCapture
       ELSE UNCHANGED <<isScanning, streams, timers, componentState>>
    /\ lastOp' = IF isScanning /\ timers # {} THEN "teardown" ELSE "other"
    /\ UNCHANGED <<appOther, variant, bodyScans, photos, localError, sess, pending, requests,
                   history>>

----------------------------------------------------------------------------
(* The App controller: values *)

Variants == {"idx", "p0", "p1a", "p1b"}
ScanVariants == {"idx", "p0"}            \* the profile holds bodyScans
FaceVariants == {"p0", "p1b"}            \* the profile holds faceImage
GuardedVariants == {"p0", "p1b"}         \* load and save run inside try/catch

NoResult == <<>>                         \* resultImage === null
NoMessage == <<>>                        \* error === null
Undefined == "<undefined>"               \* an absent string-typed property

Poses == {"Standing Straight", "Hands on Hips"}   \* two of the four poses of the selector
DefaultPose == "Standing Straight"

\* Record (JavaScript object) helpers
Has(r, k) == k \in DOMAIN r
SetField(r, k, v) == [f \in DOMAIN r \cup {k} |-> IF f = k THEN v ELSE r[f]]
DropField(r, k) == [f \in DOMAIN r \ {k} |-> r[f]]
\* r?.k || dflt, for an object-typed property
ObjectOr(r, k, dflt) == IF Has(r, k) /\ r[k] # Null THEN r[k] ELSE dflt
\* r?.k || '', for a string-typed property
StringOr(r, k, dflt) == IF Has(r, k) /\ r[k] # "" /\ r[k] # Undefined THEN r[k] ELSE dflt
\* r?.k || [], for a list-typed property
ListOr(r, k) == IF Has(r, k) THEN r[k] ELSE <<>>
\* r?.k
StringAt(r, k) == IF Has(r, k) THEN r[k] ELSE Undefined

\* JSON.stringify drops the properties whose value is undefined; JSON.parse gives back
\* what is left.  The stored item is modelled as the record JSON.parse yields.
OptionalProps == {"bodyType"}           \* the properties that can be undefined
Stringify(p) == [f \in {k \in DOMAIN p : ~(k \in OptionalProps /\ p[k] = Undefined)} |-> p[f]]
NoItem == [absent |-> TRUE]              \* getItem returns null
CorruptItem == [corrupt |-> TRUE]        \* an item JSON.parse throws on

\* Images the user can provide
Garment == ImageFile("garment", "image/png")
Selfie == ImageFile("selfie", "image/png")
BodyPhoto == ImageFile("body", "image/png")
NewScan == [front |-> ImageFile("f1", "image/jpeg"),
            side |-> ImageFile("f2", "image/jpeg"),
            back |-> ImageFile("f1", "image/jpeg")]

\* Messages, as the list of the pieces they are concatenated from
NeedClothingAndProfile == <<"Please upload a clothing item and ensure your profile is complete.">>
NeedScan == <<"Please complete the 3-angle body scan in your profile for best results.">>
NeedEverything(v) ==
    IF v = "p0"
    THEN <<"Please complete your profile, including the 3-angle body scan, and upload a clothing image first.">>
    ELSE <<"Please complete your profile, including a full body photo, and upload a clothing image first.">>
DefaultExplanation == "No image was generated. The model may have refused the request due to safety policies. Please try a different set of images."
UnexpectedError == "An unexpected error occurred."
PleaseTryAgain == "Please try again."
NoImageReturned == "The AI did not return an image. It might have responded with text instead. Please check your prompt or try a different image."
TypeErrorMessage == "Cannot read properties of undefined"
SaveFailed == <<"Could not save your profile. Your browser storage might be full.">>
IncompleteForm(v) ==
    CASE v \in ScanVariants -> <<"Please complete your name, measurements, and the 3-angle body scan.">>
      [] v = "p1a" -> <<"Please fill out all fields and upload at least one photo.">>
      [] v = "p1b" -> <<"Please complete your name, measurements, and upload a full body photo.">>
\* the title of the clothing uploader
ClothingTitle(v) == IF v \in {"idx", "p1a"} THEN "Clothing Item" ELSE "Upload Garment"

----------------------------------------------------------------------------
(* The App controller: the request of handleGenerate *)

InlinePart(img) == [inlineData |-> [data |-> img.b64, mimeType |-> img.mimeType]]
TextPart(p, pose) == [text |-> <<StringAt(p, "name"), StringAt(p, "height"),
                                 StringAt(p, "weight"), StringAt(p, "bodyType"), pose>>]

RECURSIVE MapInline(_)
\* profile.photos.map(img => ({ inlineData: ... }))
MapInline(imgs) == IF imgs = <<>> THEN <<>> ELSE <<InlinePart(Head(imgs))>> \o MapInline(Tail(imgs))

\* personParts / the body-reference parts of the request
PersonParts(v, p) ==
    CASE v \in ScanVariants -> <<InlinePart(p.bodyScans.front), InlinePart(p.bodyScans.side),
                                 InlinePart(p.bodyScans.back)>>
      [] v = "p1a" -> MapInline(p.photos)
      [] v = "p1b" -> <<InlinePart(p.fullBodyImage)>>

\* ...(profile.faceImage ? [{ inlineData: ... }] : [])
FaceParts(p) == IF Has(p, "faceImage") /\ p.faceImage # Null THEN <<InlinePart(p.faceImage)>> ELSE <<>>

\* the parts of the request, in the order the variant lists them
BuildPartsTextFirst(v, p, clothing, pose) ==
    <<TextPart(p, pose)>> \o PersonParts(v, p) \o <<InlinePart(clothing)>>
BuildParts(v, p, clothing, pose) ==
    IF v \in {"idx", "p1a"}
    THEN <<InlinePart(clothing)>> \o PersonParts(v, p) \o <<TextPart(p, pose)>>
    ELSE FaceParts(p) \o PersonParts(v, p) \o <<InlinePart(clothing), TextPart(p, pose)>>

\* loadingTips.length
NumTips == 6

\* the checks handleGenerate makes before it touches the page
ScanCompleteFrontOnly(scans) == scans.front # Null
ScanComplete(scans) == scans.front # Null /\ scans.side # Null /\ scans.back # Null
GenerateRejection(v, p, clothing) ==
    CASE v = "idx" -> IF clothing = Null \/ p = Null THEN NeedClothingAndProfile
                      ELSE IF ~ScanComplete(p.bodyScans) THEN NeedScan
                      ELSE NoMessage
      [] v = "p1a" -> IF clothing = Null \/ p = Null THEN NeedClothingAndProfile ELSE NoMessage
      [] v = "p0" -> IF p = Null \/ clothing = Null \/ ~ScanComplete(p.bodyScans)
                     THEN NeedEverything(v) ELSE NoMessage
      [] v = "p1b" -> IF p = Null \/ clothing = Null \/ p.fullBodyImage = Null
                      THEN NeedEverything(v) ELSE NoMessage

----------------------------------------------------------------------------
(* The App controller: the reply of the service and its interpretation *)

PngA == [inlineData |-> [data |-> "g1", mimeType |-> "image/png"]]
PngB == [inlineData |-> [data |-> "g2", mimeType |-> "image/png"]]
Wav == [inlineData |-> [data |-> "w1", mimeType |-> "audio/wav"]]
Refusal == [text |-> "safety policy"]

Candidate(parts) == [content |-> TRUE, parts |-> parts]
NoContent == [content |-> FALSE, parts |-> <<>>]          \* a candidate without content
Response(cands) == [kind |-> "response", candidates |-> cands]
\* what generateContent can settle with: a rejection, a response without candidates,
\* or a response with a list of candidates
Replies ==
    { [kind |-> "rejected", message |-> m] : m \in {"quota exceeded", ""} }
    \cup { [kind |-> "nocandidates"] }
    \cup { Response(c) : c \in { <<>>,
                                 <<NoContent>>,
                                 <<Candidate(<<>>)>>,
                                 <<Candidate(<<Refusal>>)>>,
                                 <<Candidate(<<PngA>>)>>,
                                 <<Candidate(<<Refusal, PngA, PngB>>)>>,
                                 <<Candidate(<<Wav>>)>>,
                                 <<Candidate(<<Wav, PngA>>)>>,
                                 <<Candidate(<<Refusal>>), Candidate(<<PngB>>)>>,
                                 <<Candidate(<<PngA>>), Candidate(<<PngB>>)>> } }

NoReply == [kind |-> "none"]

IsInline(part) == Has(part, "inlineData")
\* mimeType.startsWith('image/')
IsImageMime(m) == m \in {"image/png", "image/jpeg"}

\* response.candidates?.[0]?.content?.parts, the empty list standing for undefined
FirstParts(reply) ==
    IF reply.kind = "response" /\ Len(reply.candidates) >= 1 /\ reply.candidates[1].content
    THEN reply.candidates[1].parts
    ELSE <<>>

\* parts.find(part => part.inlineData): the index of the first such part, 0 if none
RECURSIVE FindInlineFrom(_, _)
FindInlineFrom(parts, i) ==
    IF i > Len(parts) THEN 0
    ELSE IF IsInline(parts[i]) THEN i
    ELSE FindInlineFrom(parts, i + 1)
FindInline(parts) == FindInlineFrom(parts, 1)

\* for (const part of parts) if (part.inlineData && mimeType.startsWith('image/')) ... break
RECURSIVE FindImageFrom(_, _)
FindImageFrom(parts, i) ==
    IF i > Len(parts) THEN 0
    ELSE IF IsInline(parts[i]) /\ IsImageMime(parts[i].inlineData.mimeType) THEN i
    ELSE FindImageFrom(parts, i + 1)
FindImage(parts) == FindImageFrom(parts, 1)

\* response.text: the text parts of the first candidate, concatenated ("" for undefined)
RECURSIVE TextOf(_)
TextOf(parts) ==
    IF parts = <<>> THEN ""
    ELSE (IF IsInline(Head(parts)) THEN "" ELSE Head(parts).text) \o TextOf(Tail(parts))
ResponseText(reply) == TextOf(FirstParts(reply))

\* `data:${mimeType};base64,${data}`
DataUrlNull(inline) == NoResult
DataUrl(inline) == <<"data:" \o inline.mimeType \o ";base64", inline.data>>

\* What the try block of handleGenerate comes to once generateContent has settled:
\* an image, an error message set by the block itself, or an exception.
TryBlock(v, reply) ==
    IF reply.kind = "rejected" THEN [kind |-> "throw", message |-> reply.message]
    ELSE IF v \in {"idx", "p1a"}
    THEN LET parts == FirstParts(reply)
             i == FindInline(parts)
         IN IF i # 0
            THEN [kind |-> "image", url |-> DataUrl(parts[i].inlineData)]
            ELSE [kind |-> "error",
                  error |-> <<"Failed to generate image. Response: ",
                              IF ResponseText(reply) # "" THEN ResponseText(reply)
                              ELSE DefaultExplanation>>]
    ELSE IF reply.kind = "nocandidates" \/ Len(reply.candidates) = 0
            \/ ~reply.candidates[1].content
    THEN [kind |-> "throw", message |-> TypeErrorMessage]
    ELSE LET parts == reply.candidates[1].parts
             i == FindImage(parts)
         IN IF i # 0
            THEN [kind |-> "image", url |-> DataUrl(parts[i].inlineData)]
            ELSE [kind |-> "throw", message |-> NoImageReturned]

\* the catch clause of handleGenerate takes every exception of the try block
CatchesNothing(v) == FALSE
Catches(v) == TRUE

\* the request handleGenerate makes after its try block has come to outcome: none
RequestAgainAfter(outcome) == IF outcome.kind = "image" THEN Null ELSE inflight
RequestAfter(outcome) == Null

\* the message the catch clause sets
CatchMessage(v, message) ==
    IF v \in {"idx", "p1a"}
    THEN <<IF message # "" THEN message ELSE UnexpectedError>>
    ELSE <<"Sorry, we couldn't generate the image. ",
           IF message # "" THEN message ELSE PleaseTryAgain>>

----------------------------------------------------------------------------
(* The App controller: load, migration and the profile form *)

\* savedProfile.photos[i] || null, with the list indexed from 1
PhotoAt(list, i) == IF i <= Len(list) THEN list[i] ELSE Null

\* if (savedProfile.photos) { savedProfile.bodyScans = {...}; delete savedProfile.photos; }
MigratePhotosShifted(rec) ==
    IF Has(rec, "photos")
    THEN SetField(DropField(rec, "photos"), "bodyScans",
                  [front |-> PhotoAt(rec.photos, 2), side |-> PhotoAt(rec.photos, 3),
                   back |-> PhotoAt(rec.photos, 4)])
    ELSE rec
MigratePhotos(rec) ==
    IF Has(rec, "photos")
    THEN SetField(DropField(rec, "photos"), "bodyScans",
                  [front |-> PhotoAt(rec.photos, 1), side |-> PhotoAt(rec.photos, 2),
                   back |-> PhotoAt(rec.photos, 3)])
    ELSE rec
\* if (!savedProfile.bodyScans) savedProfile.bodyScans = { front: null, side: null, back: null }
DefaultScansAlways(rec) == SetField(rec, "bodyScans", EmptyScan)
DefaultScans(rec) == IF Has(rec, "bodyScans") THEN rec ELSE SetField(rec, "bodyScans", EmptyScan)
\* if (!savedProfile.savedOutfits) savedProfile.savedOutfits = []
DefaultOutfits(rec) == IF Has(rec, "savedOutfits") THEN rec ELSE SetField(rec, "savedOutfits", <<>>)

\* what the load effect makes of the parsed record
Migrate(v, rec) ==
    CASE v = "idx" -> DefaultOutfits(DefaultScans(MigratePhotos(rec)))
      [] v = "p1a" -> DefaultOutfits(rec)
      [] OTHER -> rec

\* the load effect: the profile and the page it sets, and whether an exception escapes it
Load(v, item) ==
    IF item = NoItem
    THEN [profile |-> Null, page |-> IF v \in GuardedVariants THEN "home" ELSE "profile",
          threw |-> FALSE]
    ELSE IF item = CorruptItem
    THEN IF v \in GuardedVariants
         THEN [profile |-> Null, page |-> "home", threw |-> FALSE]
         ELSE [profile |-> Null, page |-> "loading", threw |-> TRUE]
    ELSE [profile |-> Migrate(v, item),
          page |-> IF v \in GuardedVariants THEN "creator" ELSE "home", threw |-> FALSE]

captureOnly == <<isScanning, sess, step, images, preview, countdown, timers,
                 countdownIntervalRef, pending, requests, streams, streamRef, videoSrc,
                 completeCalls, emitted, confirmLog, stillsThisCountdown>>
formVars == <<formName, formHeight, formWeight, formBodyType, formFace, formFullBody,
              formSavedOutfits, bodyScans, photos, localError>>
resultVars == <<resultImage, isSavingOutfit, newOutfitName, isOutfitSaved, savedFromResult>>

\* the handler op ran: whether it threw, and whether its storage write failed
Ran(op, t, wf) == lastOp' = op /\ threw' = t /\ writeFailed' = wf
\* a handler run by the program itself (an effect, a promise that settles)
Auto(op, t, wf) == Ran(op, t, wf) /\ UNCHANGED actions /\ lastReply' = NoReply
\* the continuation of handleGenerate, run when generateContent settles with reply
Settled(reply, t) == Ran("reply", t, FALSE) /\ UNCHANGED actions /\ lastReply' = reply
\* a handler run by an action of the user
User(op, t, wf) ==
    /\ Ran(op, t, wf)
    /\ actions < MaxActions /\ actions' = actions + 1
    /\ lastReply' = NoReply

\* the useState initialisers of ProfilePage, for the profile p the page is mounted with
MountForm(p) ==
    /\ formName' = StringOr(p, "name", "")
    /\ formHeight' = StringOr(p, "height", "")
    /\ formWeight' = StringOr(p, "weight", "")
    /\ formBodyType' = StringAt(p, "bodyType")
    /\ formFace' = ObjectOr(p, "faceImage", Null)
    /\ formFullBody' = ObjectOr(p, "fullBodyImage", Null)
    /\ formSavedOutfits' = ListOr(p, "savedOutfits")
    /\ bodyScans' = ObjectOr(p, "bodyScans", EmptyScan)
    /\ photos' = ListOr(p, "photos")
    /\ localError' = NoError

\* ProfilePage is not mounted: its state does not exist
NoForm ==
    /\ formName' = "" /\ formHeight' = "" /\ formWeight' = ""
    /\ formBodyType' = Undefined /\ formFace' = Null /\ formFullBody' = Null
    /\ formSavedOutfits' = <<>> /\ bodyScans' = EmptyScan /\ photos' = <<>>
    /\ localError' = NoError

\* setPage(target) / changePage(target).  changePage also renews the key of <main>, so
\* in idx the page component is mounted anew even when the page stays the same.
GoTo(target) ==
    /\ page' = target
    /\ IF target = "profile"
       THEN IF page # "profile" \/ variant = "idx" THEN MountForm(profile) ELSE UNCHANGED formVars
       ELSE NoForm

\* the object literal handleSave and handleDeleteOutfit pass to onSave
FormProfile(v, outfits) ==
    CASE v = "idx" -> [name |-> formName, bodyScans |-> bodyScans, height |-> formHeight,
                       weight |-> formWeight, bodyType |-> formBodyType,
                       savedOutfits |-> outfits]
      [] v = "p0" -> [name |-> formName, faceImage |-> formFace, bodyScans |-> bodyScans,
                      height |-> formHeight, weight |-> formWeight,
                      bodyType |-> formBodyType, savedOutfits |-> outfits]
      [] v = "p1a" -> [name |-> formName, photos |-> photos, height |-> formHeight,
                       weight |-> formWeight, savedOutfits |-> outfits]
      [] v = "p1b" -> [name |-> formName, faceImage |-> formFace,
                       fullBodyImage |-> formFullBody, height |-> formHeight,
                       weight |-> formWeight, bodyType |-> formBodyType,
                       savedOutfits |-> outfits]

\* the check of ProfilePage.handleSave
BodyReferenceGiven(v) ==
    CASE v \in ScanVariants -> ScanComplete(bodyScans)
      [] v = "p1a" -> Len(photos) # 0
      [] v = "p1b" -> formFullBody # Null
FormValidNameOnly(v) == formName # ""
FormValid(v) == formName # "" /\ BodyReferenceGiven(v) /\ formHeight # "" /\ formWeight # ""

\* App.handleSaveProfile(p), the write succeeding (ok) or throwing: the values it leaves
HandleSaveProfile(v, p, ok) ==
    IF v \in GuardedVariants
    THEN IF ok
         THEN [profile |-> p, storage |-> Stringify(p), error |-> NoMessage, threw |-> FALSE]
         ELSE [profile |-> profile, storage |-> storage, error |-> SaveFailed, threw |-> FALSE]
    ELSE IF ok
         THEN [profile |-> p, storage |-> Stringify(p), error |-> error, threw |-> FALSE]
         ELSE [profile |-> p, storage |-> storage, error |-> error, threw |-> TRUE]

----------------------------------------------------------------------------
(* The App controller: actions *)


Names == {"", "Alex"}
Heights == {"", "5.8"}
Weights == {"", "70"}
BodyTypes == {"Round"}
OutfitNames == {"", " ", "Look"}
\* newOutfitName.trim()
Trim(s) == IF s = " " THEN "" ELSE s

\* Date.now() at the save of an outfit: a reading of the wall clock, which nothing
\* relates to the readings that the saved outfits hold
Now == 1..MaxNow

\* { ...profile, savedOutfits: [...(profile.savedOutfits || []), newOutfit] } in idx and
\* p1a, { ...profile, savedOutfits: [newOutfit, ...profile.savedOutfits] } in p0 and p1b
AddOutfit(v, p, newOutfit) ==
    IF v \in GuardedVariants
    THEN [p EXCEPT !.savedOutfits = <<newOutfit>> \o @]
    ELSE SetField(p, "savedOutfits", Append(ListOr(p, "savedOutfits"), newOutfit))

\* savedOutfits.filter(outfit => outfit.id !== idToDelete)
RemoveOutfit(outfits, idToDelete) ==
    LET Keep(o) == o.id # idToDelete IN SelectSeq(outfits, Keep)

\* the effect that loads the profile from localStorage, run once after the first render
LoadEffect ==
    /\ ~booted
    /\ booted' = TRUE
    /\ LET l == Load(variant, storage)
       IN /\ profile' = l.profile
          /\ IF l.threw THEN UNCHANGED <<page, formVars>> ELSE GoTo(l.page)
          /\ Auto("load", l.threw, FALSE)
    /\ UNCHANGED <<variant, tip, captureOnly, storage, clothingImage, selectedPose, resultVars,
                   error, inflight>>

\* the browser reloads the document: the App starts over, the storage stays
Reload ==
    /\ booted
    /\ booted' = FALSE /\ page' = "loading" /\ profile' = Null
    /\ clothingImage' = Null /\ selectedPose' = DefaultPose
    /\ resultImage' = NoResult /\ isSavingOutfit' = FALSE /\ newOutfitName' = ""
    /\ isOutfitSaved' = FALSE /\ error' = NoMessage /\ inflight' = Null
    /\ savedFromResult' = 0
    /\ NoForm
    /\ tip' = 0
    /\ User("other", FALSE, FALSE)
    /\ UNCHANGED <<variant, captureOnly, storage>>

\* a Header that is rendered on every page
NavTargetsOnEveryPage == {"home", "profile"}
\* where the buttons of the Header and of the pages lead
NavTargets ==
    (IF variant # "p1a" /\ page # "loading" THEN {"home", "profile"} ELSE {})
    \cup (IF page = "home"
          THEN CASE variant = "idx" -> {"creator", "profile"}
                 [] variant = "p1a" -> {"creator"}
                 [] OTHER -> {"profile"} \cup (IF profile # Null THEN {"creator"} ELSE {})
          ELSE {})
    \cup (IF variant = "p1a" /\ page = "creator" THEN {"profile"} ELSE {})
    \cup (IF variant = "p1a" /\ page = "profile" /\ profile # Null THEN {"creator"} ELSE {})

Navigate(target) ==
    /\ target \in NavTargets
    /\ target # page \/ variant = "idx"
    /\ GoTo(target)
    /\ User("other", FALSE, FALSE)
    /\ UNCHANGED <<variant, tip, captureOnly, booted, profile, storage, clothingImage, selectedPose,
                   resultVars, error, inflight>>

\* the inputs of the profile form
SetName(n) ==
    /\ page = "profile" /\ n # formName /\ formName' = n
    /\ User("other", FALSE, FALSE)
    /\ UNCHANGED <<variant, tip, captureOnly, page, booted, profile, storage, clothingImage,
                   selectedPose, resultVars, error, inflight, formHeight, formWeight,
                   formBodyType, formFace, formFullBody, formSavedOutfits, bodyScans, photos,
                   localError>>
SetHeight(h) ==
    /\ page = "profile" /\ h # formHeight /\ formHeight' = h
    /\ User("other", FALSE, FALSE)
    /\ UNCHANGED <<variant, tip, captureOnly, page, booted, profile, storage, clothingImage,
                   selectedPose, resultVars, error, inflight, formName, formWeight,
                   formBodyType, formFace, formFullBody, formSavedOutfits, bodyScans, photos,
                   localError>>
SetWeight(w) ==
    /\ page = "profile" /\ w # formWeight /\ formWeight' = w
    /\ User("other", FALSE, FALSE)
    /\ UNCHANGED <<variant, tip, captureOnly, page, booted, profile, storage, clothingImage,
                   selectedPose, resultVars, error, inflight, formName, formHeight,
                   formBodyType, formFace, formFullBody, formSavedOutfits, bodyScans, photos,
                   localError>>
SetBodyType(b) ==
    /\ page = "profile" /\ variant # "p1a" /\ b # formBodyType /\ formBodyType' = b
    /\ User("other", FALSE, FALSE)
    /\ UNCHANGED <<variant, tip, captureOnly, page, booted, profile, storage, clothingImage,
                   selectedPose, resultVars, error, inflight, formName, formHeight,
                   formWeight, formFace, formFullBody, formSavedOutfits, bodyScans, photos,
                   localError>>
\* ImageUploader of the selfie and of the full-body photo, with an image file
SetFaceImage ==
    /\ page = "profile" /\ variant \in FaceVariants
    /\ formFace' = Selfie /\ localError' = NoError
    /\ User("other", FALSE, FALSE)
    /\ UNCHANGED <<variant, tip, captureOnly, page, booted, profile, storage, clothingImage,
                   selectedPose, resultVars, error, inflight, formName, formHeight,
                   formWeight, formBodyType, formFullBody, formSavedOutfits, bodyScans, photos>>
SetFullBodyImage ==
    /\ page = "profile" /\ variant = "p1b"
    /\ formFullBody' = BodyPhoto /\ localError' = NoError
    /\ User("other", FALSE, FALSE)
    /\ UNCHANGED <<variant, tip, captureOnly, page, booted, profile, storage, clothingImage,
                   selectedPose, resultVars, error, inflight, formName, formHeight,
                   formWeight, formBodyType, formFace, formSavedOutfits, bodyScans, photos>>
\* ProfilePage.handleScanComplete(scans), called by a capture session that completed
HandleScanComplete ==
    /\ page = "profile" /\ variant \in ScanVariants
    /\ bodyScans' = NewScan
    /\ User("other", FALSE, FALSE)
    /\ UNCHANGED <<variant, tip, captureOnly, page, booted, profile, storage, clothingImage,
                   selectedPose, resultVars, error, inflight, formName, formHeight,
                   formWeight, formBodyType, formFace, formFullBody, formSavedOutfits, photos,
                   localError>>

\* MultiImageUploader.handleFileChange (p1a) with an image file or another file
UploadPhoto(isImage) ==
    /\ pageMounted /\ variant = "p1a"
    /\ IF ~isImage
       THEN localError' = InvalidFileType /\ UNCHANGED photos
       ELSE IF Len(photos) >= MaxPhotos
       THEN localError' = TooManyPhotos /\ UNCHANGED photos
       ELSE photos' = Append(photos, ImageFile("u1", "image/png")) /\ localError' = NoError
    /\ User("upload", FALSE, FALSE)
    /\ UNCHANGED <<variant, tip, captureOnly, page, booted, profile, storage, clothingImage,
                   selectedPose, resultVars, error, inflight, formName, formHeight,
                   formWeight, formBodyType, formFace, formFullBody, formSavedOutfits,
                   bodyScans>>

\* ProfilePage.handleSave
HandleSave ==
    /\ page = "profile"
    /\ IF ~FormValid(variant)
       THEN /\ localError' = IncompleteForm(variant)
            /\ User("save", FALSE, FALSE)
            /\ UNCHANGED <<page, profile, storage, error, formName, formHeight, formWeight,
                           formBodyType, formFace, formFullBody, formSavedOutfits, bodyScans,
                           photos>>
       ELSE \E ok \in BOOLEAN :
              LET o == HandleSaveProfile(variant, FormProfile(variant, formSavedOutfits), ok)
              IN /\ profile' = o.profile /\ storage' = o.storage /\ error' = o.error
                 /\ User("save", o.threw, ~ok)
                 /\ IF o.threw THEN UNCHANGED <<page, formVars>> ELSE GoTo("creator")
    /\ UNCHANGED <<variant, tip, captureOnly, booted, clothingImage, selectedPose, resultVars,
                   inflight>>

\* ProfilePage.handleDeleteOutfit(id); in p1a the list of the form is all it changes
HandleDeleteOutfit(id) ==
    /\ page = "profile"
    /\ \E i \in 1..Len(formSavedOutfits) : formSavedOutfits[i].id = id
    /\ LET updatedOutfits == RemoveOutfit(formSavedOutfits, id)
       IN /\ formSavedOutfits' = updatedOutfits
          /\ IF variant = "p1a"
             THEN /\ User("deleteOutfit", FALSE, FALSE)
                  /\ UNCHANGED <<profile, storage, error>>
             ELSE \E ok \in BOOLEAN :
                    LET o == HandleSaveProfile(variant, FormProfile(variant, updatedOutfits), ok)
                    IN /\ profile' = o.profile /\ storage' = o.storage /\ error' = o.error
                       /\ User("deleteOutfit", o.threw, ~ok)
    /\ UNCHANGED <<variant, tip, captureOnly, page, booted, clothingImage, selectedPose, resultVars,
                   inflight, formName, formHeight, formWeight, formBodyType, formFace,
                   formFullBody, bodyScans, photos, localError>>

\* ImageUploader.onFileChange of the clothing item, with an image file or another file
UploadClothing(isImage) ==
    /\ page = "creator"
    /\ IF isImage
       THEN clothingImage' = Garment /\ error' = NoMessage
       ELSE /\ error' = <<"Invalid file type for ", ClothingTitle(variant), ". Please upload an image.">>
            /\ UNCHANGED clothingImage
    /\ User("upload", FALSE, FALSE)
    /\ UNCHANGED <<variant, tip, captureOnly, page, booted, profile, storage, selectedPose,
                   resultVars, inflight, formVars>>

SelectPose(pose) ==
    /\ page = "creator" /\ pose # selectedPose
    /\ selectedPose' = pose
    /\ User("other", FALSE, FALSE)
    /\ UNCHANGED <<variant, tip, captureOnly, page, booted, profile, storage, clothingImage,
                   resultVars, error, inflight, formVars>>

\* a generate handler that would sign the user out: it drops the profile and its record
HandleGenerateDroppingProfile ==
    /\ page = "creator" /\ profile # Null
    /\ profile' = Null /\ storage' = NoItem
    /\ User("generate", FALSE, FALSE)
    /\ UNCHANGED <<variant, tip, captureOnly, page, booted, clothingImage, selectedPose, resultVars,
                   error, inflight, formVars>>

\* App.handleGenerate up to the await of generateContent.  built: whether the client and
\* the parts of the request could be constructed (new GoogleGenAI throws without an API
\* key); idx and p1a construct them before the try block, p0 and p1b inside it.
HandleGenerate ==
    /\ page = "creator"
    /\ LET rejection == GenerateRejection(variant, profile, clothingImage)
       IN IF rejection # NoMessage
          THEN /\ error' = rejection
               /\ IF rejection = NeedScan THEN GoTo("profile") ELSE UNCHANGED <<page, formVars>>
               /\ UNCHANGED <<resultImage, savedFromResult, inflight>>
               /\ User("generate", FALSE, FALSE)
          ELSE \E built \in BOOLEAN :
                 /\ resultImage' = NoResult /\ savedFromResult' = 0
                 /\ IF built
                    THEN /\ GoTo("loading")
                         /\ error' = NoMessage
                         /\ inflight' = [parts |-> BuildParts(variant, profile, clothingImage,
                                                              selectedPose)]
                         /\ User("generate", FALSE, FALSE)
                    ELSE IF variant \in GuardedVariants
                    THEN /\ GoTo("creator")
                         /\ error' = CatchMessage(variant, "An API Key must be set")
                         /\ UNCHANGED inflight
                         /\ User("generate", FALSE, FALSE)
                    ELSE /\ GoTo("loading")
                         /\ error' = NoMessage
                         /\ UNCHANGED inflight
                         /\ User("generate", TRUE, FALSE)
    /\ UNCHANGED <<variant, tip, captureOnly, booted, profile, storage, clothingImage, selectedPose,
                   isSavingOutfit, newOutfitName, isOutfitSaved>>

\* App.handleGenerate from the await on: generateContent settles with reply.  The handler
\* awaits generateContent once and has no loop: whatever the try block comes to, the
\* request that follows it is none.
ServiceReplies(reply) ==
    /\ inflight # Null
    /\ LET r == TryBlock(variant, reply)
       IN /\ inflight' = RequestAfter(r)
          /\ CASE r.kind = "image" ->
                 /\ resultImage' = r.url /\ savedFromResult' = 0
                 /\ GoTo("result")
                 /\ IF variant \in {"p0", "p1b"}
                    THEN isOutfitSaved' = FALSE /\ newOutfitName' = ""
                    ELSE UNCHANGED <<isOutfitSaved, newOutfitName>>
                 /\ Settled(reply, FALSE)
                 /\ UNCHANGED error
            [] r.kind = "error" ->
                 /\ error' = r.error
                 /\ GoTo("creator")
                 /\ Settled(reply, FALSE)
                 /\ UNCHANGED <<resultImage, savedFromResult, isOutfitSaved, newOutfitName>>
            [] r.kind = "throw" ->
                 /\ IF Catches(variant)
                    THEN /\ error' = CatchMessage(variant, r.message)
                         /\ GoTo("creator")
                         /\ Settled(reply, FALSE)
                    ELSE /\ Settled(reply, TRUE)
                         /\ UNCHANGED <<error, page, formVars>>
                 /\ UNCHANGED <<resultImage, savedFromResult, isOutfitSaved, newOutfitName>>
    /\ UNCHANGED <<variant, tip, captureOnly, booted, profile, storage, clothingImage, selectedPose,
                   isSavingOutfit>>

\* the tips effect: its interval exists while the condition it tests held at the last
\* render; the first App of part_001 has no such effect
TipIntervalAlways == TRUE
TipInterval ==
    CASE variant = "idx" -> page = "loading"
      [] variant = "p1a" -> FALSE
      [] OTHER -> page = "loading" /\ resultImage = NoResult
\* the interval callback of the tips effect: setTip(loadingTips[(indexOf(prev) + 1) % length]).
\* The load effect runs in the flush that creates the first interval, before its period ends.
LoadingTip ==
    /\ booted /\ TipInterval
    /\ tip' = (tip + 1) % NumTips
    /\ Auto("tip", FALSE, FALSE)
    /\ UNCHANGED <<variant, captureOnly, page, booted, profile, storage, clothingImage,
                   selectedPose, resultVars, error, inflight, formVars>>

\* App.handleReset ("Create New", idx and p1a)
HandleReset ==
    /\ page = "result" /\ ~isSavingOutfit /\ variant \in {"idx", "p1a"}
    /\ clothingImage' = Null /\ selectedPose' = DefaultPose
    /\ resultImage' = NoResult /\ savedFromResult' = 0 /\ error' = NoMessage
    /\ isSavingOutfit' = FALSE /\ newOutfitName' = "" /\ isOutfitSaved' = FALSE
    /\ GoTo(IF variant = "idx" THEN "creator" ELSE "home")
    /\ User("reset", FALSE, FALSE)
    /\ UNCHANGED <<variant, tip, captureOnly, booted, profile, storage, inflight>>

\* App.handleRetry ("Try Another", p0 and p1b)
HandleRetry ==
    /\ page = "result" /\ ~isSavingOutfit /\ variant \in {"p0", "p1b"}
    /\ resultImage' = NoResult /\ savedFromResult' = 0
    /\ GoTo("creator")
    /\ User("reset", FALSE, FALSE)
    /\ UNCHANGED <<variant, tip, captureOnly, booted, profile, storage, clothingImage, selectedPose,
                   error, isSavingOutfit, newOutfitName, isOutfitSaved, inflight>>

\* the button that opens the save form, disabled once the outfit is saved
OpenSaveForm ==
    /\ page = "result" /\ ~isSavingOutfit /\ ~isOutfitSaved
    /\ isSavingOutfit' = TRUE
    /\ User("other", FALSE, FALSE)
    /\ UNCHANGED <<variant, tip, captureOnly, page, booted, profile, storage, clothingImage,
                   selectedPose, resultImage, savedFromResult, newOutfitName, isOutfitSaved, error,
                   inflight,
                   formVars>>

\* Cancel in the save form
CancelSaveForm ==
    /\ page = "result" /\ isSavingOutfit
    /\ isSavingOutfit' = FALSE
    /\ User("other", FALSE, FALSE)
    /\ UNCHANGED <<variant, tip, captureOnly, page, booted, profile, storage, clothingImage,
                   selectedPose, resultImage, savedFromResult, newOutfitName, isOutfitSaved, error,
                   inflight,
                   formVars>>

SetOutfitName(n) ==
    /\ page = "result" /\ isSavingOutfit /\ n # newOutfitName
    /\ newOutfitName' = n
    /\ User("other", FALSE, FALSE)
    /\ UNCHANGED <<variant, tip, captureOnly, page, booted, profile, storage, clothingImage,
                   selectedPose, resultImage, savedFromResult, isSavingOutfit, isOutfitSaved, error,
                   inflight,
                   formVars>>

\* App.handleSaveOutfit
HandleSaveOutfit ==
    /\ page = "result" /\ isSavingOutfit
    /\ IF Trim(newOutfitName) = "" \/ resultImage = NoResult \/ profile = Null
       THEN /\ User("saveOutfit", FALSE, FALSE)
            /\ UNCHANGED <<profile, storage, error, isSavingOutfit, isOutfitSaved,
                           savedFromResult>>
       ELSE \E now \in Now :
              IF variant \in GuardedVariants
               THEN IF ~Has(profile, "savedOutfits")
                    THEN \* [newOutfit, ...profile.savedOutfits] throws on undefined
                         /\ User("saveOutfit", TRUE, FALSE)
                         /\ UNCHANGED <<profile, storage, error, isSavingOutfit, isOutfitSaved,
                                        savedFromResult>>
                    ELSE \E ok \in BOOLEAN :
                           LET newOutfit == [id |-> now,
                                             name |-> Trim(newOutfitName),
                                             image |-> resultImage]
                               updatedProfile == AddOutfit(variant, profile, newOutfit)
                               o == HandleSaveProfile(variant, updatedProfile, ok)
                           IN /\ profile' = o.profile /\ storage' = o.storage
                              /\ error' = o.error
                              /\ isSavingOutfit' = FALSE /\ isOutfitSaved' = TRUE
                              /\ savedFromResult' = IF ok THEN Min(savedFromResult + 1, 2)
                                                    ELSE savedFromResult
                              /\ User("saveOutfit", FALSE, ~ok)
               ELSE \E ok \in BOOLEAN :
                      LET newOutfit == [id |-> now, name |-> newOutfitName,
                                        image |-> resultImage]
                          updatedProfile == AddOutfit(variant, profile, newOutfit)
                      IN /\ profile' = updatedProfile
                         /\ savedFromResult' = Min(savedFromResult + 1, 2)
                         /\ UNCHANGED error
                         /\ IF ok
                            THEN /\ storage' = Stringify(updatedProfile)
                                 /\ isOutfitSaved' = TRUE /\ isSavingOutfit' = FALSE
                            ELSE UNCHANGED <<storage, isSavingOutfit, isOutfitSaved>>
                         /\ User("saveOutfit", ~ok, ~ok)
    /\ UNCHANGED <<variant, tip, captureOnly, page, booted, clothingImage, selectedPose,
                   resultImage, newOutfitName, inflight, formVars>>

----------------------------------------------------------------------------
(* Initial states and specifications *)

\* the useState initialisers of the App
AppFresh ==
    /\ profile = Null
    /\ clothingImage = Null /\ selectedPose = DefaultPose
    /\ resultImage = NoResult /\ error = NoMessage
    /\ isSavingOutfit = FALSE /\ newOutfitName = "" /\ isOutfitSaved = FALSE
    /\ savedFromResult = 0
    /\ inflight = Null /\ tip = 0
    /\ formName = "" /\ formHeight = "" /\ formWeight = ""
    /\ formBodyType = Undefined /\ formFace = Null /\ formFullBody = Null
    /\ formSavedOutfits = <<>>
    /\ actions = 0 /\ lastReply = NoReply /\ threw = FALSE /\ writeFailed = FALSE

\* the App before the load effect has run
AppStart == page = "loading" /\ booted = FALSE /\ AppFresh

\* no capture component has been mounted
NoCapture ==
    /\ isScanning = FALSE
    /\ sess = 0
    /\ step = "front" /\ images = EmptyScan /\ preview = NoPreview
    /\ countdown = NoCountdown /\ timers = {} /\ countdownIntervalRef = 0
    /\ pending = [s \in 1..MaxSessions |-> 0]
    /\ requests = 0
    /\ streams = <<>> /\ streamRef = 0 /\ videoSrc = 0
    /\ completeCalls = 0 /\ emitted = EmptyScan /\ confirmLog = <<>>
    /\ stillsThisCountdown = 0
    /\ lastOp = "other"

ExistingScan == [front |-> ImageFile("old", "image/jpeg"),
                 side |-> ImageFile("old", "image/jpeg"),
                 back |-> ImageFile("old", "image/jpeg")]
OldOutfit == [id |-> 1, name |-> "Old look", image |-> <<"data:image/png;base64", "g0">>]

\* a record as the variant's own save writes it
StoredProfile(v, outfits) ==
    CASE v = "idx" -> [name |-> "Alex", bodyScans |-> ExistingScan, height |-> "5.8",
                       weight |-> "70", savedOutfits |-> outfits]
      [] v = "p0" -> [name |-> "Alex", faceImage |-> Null, bodyScans |-> ExistingScan,
                      height |-> "5.8", weight |-> "70", savedOutfits |-> outfits]
      [] v = "p1a" -> [name |-> "Alex", photos |-> <<BodyPhoto>>, height |-> "5.8",
                       weight |-> "70", savedOutfits |-> outfits]
      [] v = "p1b" -> [name |-> "Alex", faceImage |-> Selfie, fullBodyImage |-> BodyPhoto,
                       height |-> "5.8", weight |-> "70", savedOutfits |-> outfits]

\* a record as the photo-list version of the application wrote it
LegacyProfile(photoList) ==
    [name |-> "Alex", photos |-> photoList, height |-> "5.8", weight |-> "70"]

LegacyPhotos == {ImageFile("a", "image/png"), ImageFile("b", "image/jpeg")}
PhotoLists == UNION {[1..n -> LegacyPhotos] : n \in 0..MaxPhotos}

\* what the storage can hold when the application starts
StoredItems(v) ==
    {NoItem, StoredProfile(v, <<OldOutfit>>)}
    \cup (IF v = "idx" THEN {LegacyProfile(<<BodyPhoto>>)} ELSE {})

Init ==
    /\ variant \in Variants
    /\ storage \in StoredItems(variant)
    /\ AppStart
    /\ bodyScans = EmptyScan /\ photos = <<>> /\ localError = NoError
    /\ NoCapture

Next ==
    \/ LoadEffect
    \/ Reload
    \/ \E t \in {"home", "profile", "creator"} : Navigate(t)
    \/ \E n \in Names : SetName(n)
    \/ \E h \in Heights : SetHeight(h)
    \/ \E w \in Weights : SetWeight(w)
    \/ \E b \in BodyTypes : SetBodyType(b)
    \/ SetFaceImage
    \/ SetFullBodyImage
    \/ HandleScanComplete
    \/ \E isImage \in BOOLEAN : UploadPhoto(isImage)
    \/ HandleSave
    \/ \E id \in Now : HandleDeleteOutfit(id)
    \/ \E isImage \in BOOLEAN : UploadClothing(isImage)
    \/ \E pose \in Poses : SelectPose(pose)
    \/ HandleGenerate
    \/ \E reply \in Replies : ServiceReplies(reply)
    \/ HandleReset
    \/ HandleRetry
    \/ OpenSaveForm
    \/ CancelSaveForm
    \/ \E n \in OutfitNames : SetOutfitName(n)
    \/ HandleSaveOutfit

Spec == Init /\ [][Next]_vars

\* The way through Loading, with the interval of the tips effect firing
SpecTips ==
    Init /\ [][\/ LoadEffect
              \/ Reload
              \/ \E t \in {"home", "profile", "creator"} : Navigate(t)
              \/ \E isImage \in BOOLEAN : UploadClothing(isImage)
              \/ HandleGenerate
              \/ \E reply \in Replies : ServiceReplies(reply)
              \/ HandleReset
              \/ HandleRetry
              \/ LoadingTip]_vars

\* Save and generate over stored profiles with every combination of body-scan slots
InitScans ==
    /\ variant \in ScanVariants
    /\ \E f, s, b \in BOOLEAN :
         storage = [StoredProfile(variant, <<>>) EXCEPT
                      !.bodyScans = [front |-> IF f THEN BodyPhoto ELSE Null,
                                     side |-> IF s THEN BodyPhoto ELSE Null,
                                     back |-> IF b THEN BodyPhoto ELSE Null]]
    /\ AppStart
    /\ bodyScans = EmptyScan /\ photos = <<>> /\ localError = NoError
    /\ NoCapture

SpecScans ==
    /\ InitScans
    /\ [][\/ LoadEffect
          \/ Reload
          \/ \E t \in {"home", "profile", "creator"} : Navigate(t)
          \/ \E n \in Names : SetName(n)
          \/ HandleSave
          \/ \E isImage \in BOOLEAN : UploadClothing(isImage)
          \/ HandleGenerate
          \/ \E reply \in Replies : ServiceReplies(reply)]_vars

\* The application with a service whose every request settles: generateContent returns a
\* promise, and its continuation runs once the promise has resolved or rejected; React
\* runs the load effect once the App is mounted
SpecLive ==
    /\ Spec
    /\ WF_vars(\E reply \in Replies : ServiceReplies(reply))
    /\ WF_vars(LoadEffect)

\* The load alone, over every shape of stored record
LoadableItems(v) ==
    {NoItem, CorruptItem}
    \cup {StoredProfile(v, o) : o \in {<<>>, <<OldOutfit>>}}
    \cup {DropField(StoredProfile(v, <<>>), "savedOutfits")}
    \cup (IF v = "idx"
          THEN {LegacyProfile(l) : l \in PhotoLists}
               \cup {SetField(LegacyProfile(l), "savedOutfits", <<OldOutfit>>) : l \in PhotoLists}
               \cup {DropField(StoredProfile(v, <<>>), "bodyScans")}
          ELSE {})

InitLoad ==
    /\ variant \in Variants
    /\ storage \in LoadableItems(variant)
    /\ AppStart
    /\ bodyScans = EmptyScan /\ photos = <<>> /\ localError = NoError
    /\ NoCapture

SpecLoad == InitLoad /\ [][LoadEffect \/ Reload]_vars

\* The capture component alone, in a ProfilePage opened without a profile
InitCapture ==
    /\ variant \in {"idx", "p0", "p1a"}
    /\ page = "profile" /\ booted = TRUE /\ storage = NoItem
    /\ AppFresh
    /\ bodyScans \in {EmptyScan, ExistingScan}
    /\ photos = <<>>
    /\ localError = NoError
    /\ NoCapture

NextCapture ==
    \/ OpenScan
    \/ \E s \in 1..MaxSessions : PermissionGranted(s)
    \/ \E s \in 1..MaxSessions : PermissionDenied(s)
    \/ ParentRerender
    \/ HandleCapture
    \/ \E t \in timers : Tick(t)
    \/ HandleRetake
    \/ HandleConfirm
    \/ HandleCaptureSimple
    \/ \E isImage \in BOOLEAN : UploadPhoto(isImage)
    \/ OverlayClose
    \/ NavigateAway

SpecCapture == InitCapture /\ [][NextCapture]_vars

\* The capture component with click events that can be dispatched twice in one task
SpecConfirmTwice == InitCapture /\ [][NextCapture \/ HandleConfirmAgain]_vars

----------------------------------------------------------------------------
(* Claims about the capture component, checked under SpecCapture; C18 under *)
(* SpecConfirmTwice *)

SessionEnded(s) == ~(isScanning /\ sess = s)

\* C1: on every path that ends a capture session the camera stream acquired by that
\* session is stopped exactly once: no stream is stopped twice, and a stream whose
\* session has ended has been stopped.
C1_StreamStoppedExactlyOnce ==
    \A i \in 1..Len(streams) :
        /\ streams[i].stops <= 1
        /\ SessionEnded(streams[i].sess) => streams[i].stops = 1

\* C3: three confirms, at front, side and back in this order, and only they, make the
\* session call onComplete, exactly once, with a BodyScan whose three slots are
\* non-null and hold the stills confirmed at their steps.
C3_FullScanEmitsOnce ==
    /\ completeCalls <= 1
    /\ Len(confirmLog) <= 3
    /\ \A i \in 1..Len(confirmLog) : confirmLog[i][1] = Steps[i]
    /\ (Len(confirmLog) = 3) <=> (completeCalls = 1)
    /\ completeCalls = 1 =>
         \A i \in 1..3 :
            /\ emitted[Steps[i]] # Null
            /\ emitted[Steps[i]] = [b64 |-> confirmLog[i][2][2], mimeType |-> "image/jpeg"]

\* a completed scan whose front and side stills differ
C3_Witness ==
    /\ completeCalls = 1 /\ lastOp = "confirm"
    /\ emitted.front.b64 # emitted.side.b64

\* C4: a capture action invoked while a countdown is active changes nothing; there is
\* never more than one countdown timer, and one countdown yields at most one still.
C4_SingleCountdown ==
    /\ [](Cardinality(timers) <= 1 /\ stillsThisCountdown <= 1)
    /\ [][(lastOp' = "capture" /\ countdown # NoCountdown) =>
            UNCHANGED <<variant, appVars, isScanning, bodyScans, photos, localError, sess,
                        step, images, preview, countdown, timers, countdownIntervalRef,
                        pending, requests, streams, streamRef, videoSrc, history>>]_vars

\* the capture handler ran after the countdown had started ticking
C4_Witness ==
    /\ lastOp = "capture"
    /\ countdown # NoCountdown /\ countdown < CountdownStart
    /\ Cardinality(timers) = 1

C18_ConfirmActsOnce ==
    /\ completeCalls <= 1
    /\ isScanning =>
          /\ Len(confirmLog) <= 2
          /\ step = Steps[Len(confirmLog) + 1]
          /\ \A i \in 1..3 : (images[Steps[i]] # Null) <=> (i <= Len(confirmLog))

\* C19: retake discards the still and resumes the live feed at the same step: the step
\* and the three slots are unchanged, no preview is left, and the video element shown
\* again is attached to the camera stream the session holds.
C19_RetakeResumesLive ==
    [][lastOp' = "retake" =>
          /\ step' = step /\ images' = images
          /\ preview' = NoPreview
          /\ streamRef # 0 => videoSrc' = streamRef]_vars

C21_TeardownCancelsCountdown ==
    /\ [](\A t \in timers : isScanning /\ t.sess = sess)
    /\ [](lastOp = "teardown" => (~isScanning /\ timers = {} /\ preview = NoPreview))
    /\ [][lastOp' = "tick" => (isScanning /\ isScanning')]_vars

\* a session holding a camera stream was closed while its countdown timer was running
C21_Witness ==
    /\ lastOp = "teardown" /\ ~isScanning /\ timers = {}
    /\ page = "profile" /\ Len(streams) = 1 /\ streams[1].stops = 1

\* C35: no camera stream stays live after its session has ended: also a stream delivered
\* by a permission granted after the session was torn down has been stopped.
C35_LateGrantStopped ==
    \A i \in 1..Len(streams) :
        ~(isScanning /\ sess = streams[i].sess) => streams[i].stops > 0

\* C36: while a session has been granted no camera stream yet, a capture action is
\* rejected, so no countdown runs, no still is shown and none has been confirmed.
C36_NoCaptureBeforeGrant ==
    /\ [][(lastOp' = "capture" /\ \A i \in 1..Len(streams) : streams[i].sess # sess) =>
             (countdown' = countdown /\ timers' = timers)]_vars
    /\ []((isScanning /\ \A i \in 1..Len(streams) : streams[i].sess # sess) =>
             (countdown = NoCountdown /\ preview = NoPreview /\ confirmLog = <<>>))

----------------------------------------------------------------------------
(* Claims about the App controller, checked under Spec *)

\* the body-reference images of a profile, in the order of the slots
BodyReference(v, p) ==
    CASE v \in ScanVariants -> <<p.bodyScans.front, p.bodyScans.side, p.bodyScans.back>>
      [] v = "p1a" -> p.photos
      [] v = "p1b" -> <<p.fullBodyImage>>

\* a profile one can generate with: name, body reference, height and weight are there
GenerationReady(v, p) ==
    /\ p # Null
    /\ StringOr(p, "name", "") # ""
    /\ StringOr(p, "height", "") # ""
    /\ StringOr(p, "weight", "") # ""
    /\ Len(BodyReference(v, p)) > 0
    /\ \A i \in 1..Len(BodyReference(v, p)) : BodyReference(v, p)[i] # Null

\* C2: a generate action taken without a clothing image or with a profile that is not
\* generation-ready (name, scans, height or weight missing) sets an error message and
\* issues no call to the image-generation service.
C2_GenerateValidates ==
    [][(lastOp' = "generate" /\ (clothingImage = Null \/ ~GenerationReady(variant, profile)))
          => (error' # NoMessage /\ inflight' = Null)]_vars

IsText(part) == Has(part, "text")
HasFace(p) == Has(p, "faceImage") /\ p.faceImage # Null

\* the parts from index a on are the images of list, in order
ImagesAt(parts, a, list) ==
    \A i \in 1..Len(list) : parts[a + i - 1] = InlinePart(list[i])

\* C5 as stated: the request lists the face part iff the profile has a face image, then
\* the body-reference parts, then the clothing part, then exactly one text part, last.
C5_FaceBodyClothingText ==
    inflight # Null =>
        LET parts == inflight.parts
            body == BodyReference(variant, profile)
            f == IF HasFace(profile) THEN 1 ELSE 0
            n == Len(parts)
        IN /\ n = f + Len(body) + 2
           /\ f = 1 => parts[1] = InlinePart(profile.faceImage)
           /\ ImagesAt(parts, f + 1, body)
           /\ parts[n - 1] = InlinePart(clothingImage)
           /\ IsText(parts[n])
           /\ \A i \in 1..(n - 1) : ~IsText(parts[i])

\* C5: the request ends with exactly one text part and lists the body-reference parts
\* in slot order; in the variants with a face image (p0, p1b) the face part comes first
\* iff the profile has one and the clothing part stands directly before the text; in
\* the other variants (idx, p1a) the clothing part comes first, before the
\* body-reference parts.
C5_OrderPerVariant ==
    inflight # Null =>
        LET parts == inflight.parts
            body == BodyReference(variant, profile)
            n == Len(parts)
        IN /\ IsText(parts[n])
           /\ \A i \in 1..(n - 1) : ~IsText(parts[i])
           /\ IF variant \in FaceVariants
              THEN LET f == IF HasFace(profile) THEN 1 ELSE 0
                   IN /\ n = f + Len(body) + 2
                      /\ f = 1 => parts[1] = InlinePart(profile.faceImage)
                      /\ ImagesAt(parts, f + 1, body)
                      /\ parts[n - 1] = InlinePart(clothingImage)
              ELSE /\ n = Len(body) + 2
                   /\ parts[1] = InlinePart(clothingImage)
                   /\ ImagesAt(parts, 2, body)

\* a request of p0 that carries a face part
C5_Witness ==
    /\ inflight # Null /\ variant = "p0" /\ HasFace(profile)
    /\ Len(inflight.parts) = 6

\* the parts of every candidate of a reply
RECURSIVE AllParts(_)
AllParts(cands) == IF cands = <<>> THEN <<>> ELSE Head(cands).parts \o AllParts(Tail(cands))
IsImagePart(part) == IsInline(part) /\ IsImageMime(part.inlineData.mimeType)
\* the reply is a response none of whose parts carries inline image data
ResponseWithoutImage(reply) ==
    \/ reply.kind = "nocandidates"
    \/ /\ reply.kind = "response"
       /\ \A i \in 1..Len(AllParts(reply.candidates)) : ~IsImagePart(AllParts(reply.candidates)[i])
Carries(message, text) == \E i \in 1..Len(message) : message[i] = text

\* C6: when the response has no part with inline image data, generate sets a failure
\* message that carries the text of the response (any message when the response has no
\* text), and sets no result image.
C6_NoImageCarriesText ==
    (lastOp = "reply" /\ ResponseWithoutImage(lastReply)) =>
        /\ resultImage = NoResult
        /\ error # NoMessage
        /\ ResponseText(lastReply) # "" => Carries(error, ResponseText(lastReply))

\* the first part of the first candidate that carries inline image data (0: none)
FirstImagePart(reply) ==
    LET parts == FirstParts(reply)
        hits == {i \in 1..Len(parts) : IsImagePart(parts[i])}
    IN IF hits = {} THEN 0 ELSE CHOOSE i \in hits : \A j \in hits : i <= j

\* C7: when the first candidate of the response has a part with inline image data, the
\* result image is built from the media type and the data of the first such part; no
\* later part and no other candidate is used.
C7_FirstImageOfFirstCandidate ==
    (lastOp = "reply" /\ lastReply.kind = "response") =>
        LET i == FirstImagePart(lastReply)
        IN IF i # 0
           THEN LET inline == FirstParts(lastReply)[i].inlineData
                IN /\ page = "result"
                   /\ resultImage = <<"data:" \o inline.mimeType \o ";base64", inline.data>>
           ELSE resultImage = NoResult

\* the request failed: the promise was rejected, or the response has no candidate, or
\* its first candidate has no content
RequestFailed(reply) ==
    \/ reply.kind \in {"rejected", "nocandidates"}
    \/ /\ reply.kind = "response"
       /\ (Len(reply.candidates) = 0 \/ ~reply.candidates[1].content)

\* C8: a failure of the generation request (rejected promise, response without
\* candidates) is caught in handleGenerate: no exception escapes, a failure message is
\* set, no result image is set, and the page is back on Creator with no request left.
C8_FailuresCaught ==
    (lastOp = "reply" /\ RequestFailed(lastReply)) =>
        /\ ~threw
        /\ error # NoMessage
        /\ resultImage = NoResult
        /\ page = "creator"
        /\ inflight = Null

\* a response without candidates handled by the variant that indexes candidates[0]
C8_Witness ==
    /\ lastOp = "reply" /\ lastReply.kind = "nocandidates" /\ variant = "p0"
    /\ page = "creator" /\ Carries(error, TypeErrorMessage)

\* C9: when the storage write of a save fails, an error message is set, no exception
\* escapes the save handler, and the in-memory profile keeps its value.
C9_FailedWriteReported ==
    [][writeFailed' => (~threw' /\ error' # NoMessage /\ profile' = profile)]_vars

\* C22: adding an outfit to a profile and then removing the outfit with the id it was
\* given yields the list of saved outfits the profile had before the add.
C22_AddThenRemove ==
    [][(lastOp' = "saveOutfit" /\ profile' # profile) =>
          LET before == ListOr(profile, "savedOutfits")
              after == profile'.savedOutfits
              o == IF variant \in GuardedVariants THEN after[1] ELSE after[Len(after)]
          IN /\ Len(after) = Len(before) + 1
             /\ RemoveOutfit(after, o.id) = before]_vars

----------------------------------------------------------------------------
C24_GenerateKeepsProfile ==
    [][lastOp' \in {"generate", "reply"} => (profile' = profile /\ storage' = storage)]_vars
\* C24: a generation succeeded for a profile that is held in memory and in storage
C24_Witness ==
    /\ lastOp = "reply" /\ page = "result" /\ resultImage # NoResult
    /\ profile # Null /\ storage = profile

\* C25: the try-again action of the Result page ("Create New", "Try Another") moves the
\* page to Creator and clears the result image.
C25_TryAgainToCreator ==
    [][lastOp' = "reset" => (page = "result" /\ page' = "creator" /\ resultImage' = NoResult)]_vars

\* C26: the loading message changes only while the page is Loading, before and after the
\* change, so none occurs once the page has left Loading; and a change of the message
\* leaves the page, the profile, the result image and the error as they were.
C26_TipsOnlyWhileLoading ==
    /\ [][tip' # tip => (lastOp' = "tip" \/ tip' = 0)]_vars
    /\ [][lastOp' = "tip" =>
             /\ page = "loading" /\ page' = "loading"
             /\ profile' = profile /\ resultImage' = resultImage /\ error' = error
             /\ storage' = storage /\ inflight' = inflight]_vars
\* C26: the message was rotated during a generation, and the page has since left Loading
C26_Witness == tip # 0 /\ lastOp = "reply" /\ page \in {"result", "creator"}

\* C27: the body-scan check of profile save and of generate passes if and only if the
\* front, side and back slots are all non-null: a save whose other inputs are given gets
\* as far as the write exactly when no slot of the form's scan is null, and a generate with a profile
\* and a clothing image is rejected exactly when a slot of the profile's scan is null.
C27_ScanCompleteIffAllThree ==
    /\ [][(lastOp' = "save" /\ variant \in ScanVariants
             /\ formName # "" /\ formHeight # "" /\ formWeight # "") =>
            ((writeFailed' \/ (page' = "creator" /\ profile'.bodyScans = bodyScans))
               <=> \A slot \in {"front", "side", "back"} : bodyScans[slot] # Null)]_vars
    /\ [][(lastOp' = "generate" /\ variant \in ScanVariants
             /\ profile # Null /\ clothingImage # Null) =>
            ((error' \notin {NeedScan, NeedEverything(variant)})
               <=> \A slot \in {"front", "side", "back"} : profile.bodyScans[slot] # Null)]_vars
\* C27: generate was rejected for a profile whose scan lacks the side image alone
C27_Witness ==
    /\ lastOp = "generate" /\ profile # Null /\ clothingImage # Null
    /\ profile.bodyScans.front # Null /\ profile.bodyScans.side = Null
    /\ profile.bodyScans.back # Null
    /\ error \in {NeedScan, NeedEverything(variant)}

\* C28: an upload either accepts the file, which then has an image type, and clears the
\* error, or rejects it with the image held for the field left as it was and an error that
\* names the field (the photo uploader also rejects a fourth photo, with its own message).
C28_UploadImagesOnly ==
    /\ [][(lastOp' = "upload" /\ page = "creator") =>
            \/ /\ clothingImage' # Null /\ IsImageMime(clothingImage'.mimeType)
               /\ error' = NoMessage
            \/ /\ clothingImage' = clothingImage
               /\ \E i \in 1..Len(error') : error'[i] = ClothingTitle(variant)]_vars
    /\ [][(lastOp' = "upload" /\ page = "profile") =>
            \/ /\ Len(photos') = Len(photos) + 1
               /\ SubSeq(photos', 1, Len(photos)) = photos
               /\ IsImageMime(photos'[Len(photos')].mimeType)
               /\ localError' = NoError
            \/ /\ photos' = photos
               /\ \/ localError' = TooManyPhotos
                  \/ \E i \in 1..Len(localError') : localError'[i] = "Your Photos"]_vars

\* C29: a profile save with an empty name, an incomplete body reference, an empty height
\* or an empty weight is rejected in place: an error message is set, no write is
\* attempted, and storage, the in-memory profile and the page stay as they were.
C29_InvalidSaveRejectedInPlace ==
    [][(/\ lastOp' = "save"
        /\ \/ formName = "" \/ formHeight = "" \/ formWeight = ""
           \/ CASE variant \in ScanVariants ->
                     \E slot \in {"front", "side", "back"} : bodyScans[slot] = Null
                [] variant = "p1a" -> photos = <<>>
                [] variant = "p1b" -> formFullBody = Null) =>
          /\ localError' # NoError
          /\ ~writeFailed' /\ ~threw'
          /\ storage' = storage /\ profile' = profile
          /\ page' = "profile" /\ page = "profile"]_vars
\* C29: a save was rejected for a form with a name but without a height
C29_Witness ==
    /\ lastOp = "save" /\ page = "profile" /\ localError = IncompleteForm(variant)
    /\ formName # "" /\ formHeight = ""

\* C30: a generate action that has put the page on Loading is followed, sooner or later,
\* by the page leaving Loading, whatever went wrong while the request was built, sent or
\* interpreted.
C30_LoadingEnds == (lastOp = "generate" /\ page = "loading") ~> (page # "loading")

\* C32: deleting a saved outfit changes nothing of the profile but savedOutfits: every other
\* field of the profile held afterwards equals that field before the delete, also when
\* the form holds edits that were not saved.
C32_DeleteChangesOnlyOutfits ==
    [][(lastOp' = "deleteOutfit" /\ profile # Null) =>
          /\ profile' # Null
          /\ \A f \in (DOMAIN profile) \ {"savedOutfits"} :
                f \in DOMAIN profile' /\ profile'[f] = profile[f]]_vars

\* C33: every profile record the application writes is generation-ready: a write made
\* when storage is empty or holds a generation-ready record leaves a generation-ready
\* record, so none other is ever stored when the application starts from empty storage.
C33_StoredProfilesReady ==
    [][LET Ready(rec) ==
               /\ CASE variant \in ScanVariants -> Has(rec, "bodyScans")
                    [] variant = "p1a" -> Has(rec, "photos")
                    [] variant = "p1b" -> Has(rec, "fullBodyImage")
               /\ GenerationReady(variant, rec)
       IN (storage' # storage /\ (storage = NoItem \/ Ready(storage))) =>
             Ready(storage')]_vars

\* C34: whenever the page is Result and the result is marked saved, the profile in memory
\* holds a saved outfit whose image is the result image shown.
C34_SavedMarkMeansSaved ==
    (page = "result" /\ isOutfitSaved) =>
        /\ profile # Null
        /\ \E i \in 1..Len(ListOr(profile, "savedOutfits")) :
              profile.savedOutfits[i].image = resultImage

\* C38: from the step that issues a generation request until its reply is handled the
\* page is Loading, and the only steps taken are the handling of the reply, the rotation
\* of the loading message and a reload of the document, which drops the request: no
\* action changes the page or issues a second request, and a reply is always applied
\* while the page is Loading.
C38_NothingWhileLoading ==
    /\ [](inflight # Null => page = "loading")
    /\ [][inflight # Null =>
             \/ lastOp' \in {"reply", "tip"}
             \/ (~booted' /\ inflight' = Null)]_vars
    /\ [][lastOp' = "reply" => (page = "loading" /\ inflight # Null)]_vars
    /\ [][lastOp' = "generate" => inflight = Null]_vars
\* C38: a request is pending and the page is Loading
C38_Witness == inflight # Null /\ page = "loading" /\ lastOp = "generate" /\ booted

\* C39: whenever the page is Result a result image is present.
C39_ResultHasImage == page = "result" => resultImage # NoResult
\* C39: the Result page after the result shown was saved as an outfit
C39_Witness ==
    /\ page = "result" /\ lastOp = "saveOutfit" /\ isOutfitSaved
    /\ resultImage # NoResult

\* C40: the ids of the outfits in a profile's savedOutfits are pairwise distinct after
\* any sequence of outfit saves and deletes, so that deleting by id removes exactly
\* one outfit
C40_OutfitIdsDistinct ==
    /\ [](\A i, j \in 1..Len(ListOr(profile, "savedOutfits")) :
             i # j => profile.savedOutfits[i].id # profile.savedOutfits[j].id)
    /\ [][lastOp' = "deleteOutfit" =>
             Len(formSavedOutfits') = Len(formSavedOutfits) - 1]_vars

(* Claims about the load, checked under SpecLoad *)

\* C10: loading a legacy record with a photo list of length 0 to 3 gives a profile whose
\* body scan holds photos[0], photos[1], photos[2] at front, side, back, and null at
\* every slot the list does not fill.
C10_LegacyPhotosMigrate ==
    (variant = "idx" /\ booted /\ Has(storage, "photos")) =>
        /\ ~threw
        /\ profile # Null
        /\ ~Has(profile, "photos")
        /\ \A i \in 1..3 :
              profile.bodyScans[Steps[i]] =
                  IF i <= Len(storage.photos) THEN storage.photos[i] ELSE Null

\* a legacy record with two different photos was loaded
C10_Witness ==
    /\ variant = "idx" /\ booted /\ Has(storage, "photos")
    /\ Len(storage.photos) = 2 /\ storage.photos[1] # storage.photos[2]
    /\ profile.bodyScans.side = storage.photos[2]
    /\ profile.bodyScans.back = Null

\* C11: the migration of the load is idempotent: migrating the profile a load produced
\* gives that profile again, also after it went through the storage once more, and a
\* stored record that is already in the current shape is loaded as it is.
C11_MigrationIdempotent ==
    (booted /\ profile # Null) =>
        LET current ==
                CASE variant = "idx" -> /\ Has(storage, "bodyScans") /\ Has(storage, "savedOutfits")
                                        /\ ~Has(storage, "photos")
                  [] variant = "p1a" -> Has(storage, "savedOutfits")
                  [] OTHER -> TRUE
        IN /\ Migrate(variant, profile) = profile
           /\ Load(variant, Stringify(profile)).profile = profile
           /\ current => profile = storage

\* a legacy record that the load changed in both respects, migrated once more
C11_Witness ==
    /\ variant = "idx" /\ booted /\ profile # Null
    /\ Has(storage, "photos") /\ ~Has(storage, "savedOutfits") /\ profile # storage
    /\ Migrate(variant, profile) = profile

\* C12: in every variant, loading a stored record without savedOutfits gives a profile
\* whose savedOutfits is the empty list.
C12_LoadDefaultsOutfits ==
    (booted /\ profile # Null /\ ~Has(storage, "savedOutfits")) =>
        (Has(profile, "savedOutfits") /\ profile.savedOutfits = <<>>)

\* C13: at startup, no stored profile or one that is not complete (generation-ready)
\* routes to the profile page; a complete one routes to Home or Creator.
C13_StartupRouting ==
    (lastOp = "load" /\ storage # CorruptItem) =>
        IF GenerationReady(variant, profile)
        THEN page \in {"home", "creator"}
        ELSE page = "profile"

\* C14: the generate action moves the page from Creator to Loading if and only if a
\* clothing image is selected and the profile is generation-ready; in every other case
\* the page stays Creator and an error message is set.
C14_GenerateTransition ==
    [][lastOp' = "generate" =>
          IF clothingImage # Null /\ GenerationReady(variant, profile)
          THEN page' = "loading"
          ELSE page' = "creator" /\ error' # NoMessage]_vars

\* C15: the profile save moves the page from the profile page to Creator only when the
\* save succeeded: when the storage write fails the page does not move to Creator.
C15_CreatorOnlyAfterSave ==
    [][(lastOp' = "save" /\ writeFailed') => page' # "creator"]_vars

\* C16: saving an outfit is idempotent per generated result: whatever the user does on
\* the Result page, at most one outfit made from the result shown is added to the
\* profile's savedOutfits.
C16_OneOutfitPerResult == savedFromResult <= 1

\* C31: a stored record that cannot be parsed does not stop the application: no exception
\* escapes the load effect, and the page has left Loading for Home, Profile or Creator.
C31_ReadFailureNonFatal ==
    (lastOp = "load" /\ storage = CorruptItem) =>
        (~threw /\ page \in {"home", "profile", "creator"})

====
